---- MODULE Spec2Model ----
(***************************************************************************)
(* Propag - Monitoramento: the planning-table session of src/app.py        *)
(* (RBAC resolution, spreadsheet read, normalisation, row-level filter,    *)
(* editor, insertion validator, merge-back and write), with the          *)
(* differences of src/applayout.py noted where they matter.                *)
(*                                                                         *)
(* A table cell is a string.  NULL stands for a missing cell (None/NaN).   *)
(* A numeric cell is written as its decimal text ("1", "1.5"); what the    *)
(* pandas conversions make of a cell is given by the operators below.      *)
(* A DataFrame is a sequence of rows; the field idx of a row is its index  *)
(* label (the position in the spreadsheet read, counted from 1; 0 for a    *)
(* row added in the editor, which has no label of the read table).         *)
(***************************************************************************)
EXTENDS Integers, Sequences, FiniteSets, TLC

(***************************************************************************)
(* Bounds of the model.                                                    *)
(***************************************************************************)
MaxRows == 2
MaxEdits == 1
MaxSaves == 1
MaxBefore == 1
MaxAfter == 2
MaxList == 2
MaxFacts == 2
MaxLoads == 2
MaxWide == 3
MaxRaw == 2
NumSessions == 2

(***************************************************************************)
(* Cells and the pandas / Python conversions applied to them.              *)
(***************************************************************************)
NULL == "<NA>"

\* Numeric texts of the model and their value <<integer part, tenths>>.
NumTable ==
    ("1" :> <<1, 0>>) @@ ("2" :> <<2, 0>>) @@ ("1.5" :> <<1, 5>>)
    @@ ("5" :> <<5, 0>>) @@ ("7" :> <<7, 0>>) @@ ("10" :> <<10, 0>>)
    @@ ("20" :> <<20, 0>>) @@ ("100" :> <<100, 0>>)
    @@ ("0.0" :> <<0, 0>>) @@ ("5.0" :> <<5, 0>>) @@ ("7.0" :> <<7, 0>>)
    @@ ("0" :> <<0, 0>>) @@ ("3" :> <<3, 0>>) @@ ("4" :> <<4, 0>>)
    @@ ("30" :> <<30, 0>>) @@ ("50" :> <<50, 0>>) @@ ("89" :> <<89, 0>>)
    @@ ("200" :> <<200, 0>>) @@ ("1261" :> <<1261, 0>>) @@ ("2026" :> <<2026, 0>>)
    @@ ("1.0" :> <<1, 0>>) @@ ("2.0" :> <<2, 0>>) @@ ("10.0" :> <<10, 0>>)
    @@ ("20.0" :> <<20, 0>>) @@ ("100.0" :> <<100, 0>>)

\* Series.isnull()
IsNull(c) == c = NULL

\* pd.to_numeric(errors="coerce") yields NaN for these cells.
IsNaN(c) == c \notin DOMAIN NumTable

\* str(x) / Series.astype(str): a missing cell becomes the text "None".
Str(c) == IF c = NULL THEN "None" ELSE c

\* pd.to_numeric(s, errors="coerce").fillna(-1).astype(int):
\* NaN becomes -1, and astype(int) drops the fractional part.
UoInt(c) == IF IsNaN(c) THEN -1 ELSE NumTable[c][1]

\* The text of a float value <<integer part, tenths>>.
FloatText(v) == ToString(v[1]) \o "." \o ToString(v[2])

\* pd.to_numeric(s, errors="coerce").fillna(0.0), as float text.
ToFloat(c) == IF IsNaN(c) THEN "0.0" ELSE FloatText(NumTable[c])

\* Series.str.upper() on the texts of the model.
Upper(c) ==
    CASE c = "sim" -> "SIM"
      [] c = "True" -> "TRUE"
      [] c = "False" -> "FALSE"
      [] c = "x" -> "X"
      [] OTHER -> c

\* Variant: a list of tokens without "TRUE".
BoolTokensNoTrue == {"1", "SIM"}

\* normalize_dataframe, BOOL_COLS: astype(str).str.upper().isin([...]).
BoolTokens == {"TRUE", "1", "SIM"}

ToBool(c) == IF Upper(Str(c)) \in BoolTokens THEN "True" ELSE "False"

(***************************************************************************)
(* Schema (my_pkg/transform/schema.py).  The thirteen numeric columns are *)
(* represented by valor_replanejado_total and the six planned columns by   *)
(* b1_planejado (1_bimestre_planejado).                                    *)
(***************************************************************************)
ALL_COLS ==
    <<"uo_cod", "uo_sigla", "acao_cod", "acao_desc", "intervencao_cod",
      "intervencao_desc", "marcos_principais", "novo_marco",
      "valor_previsto_total", "valor_replanejado_total", "b1_planejado">>

NUMERIC_COLS == {"valor_replanejado_total"}

BOOL_COLS == {"b1_planejado"}

EDITABLE_COLS == NUMERIC_COLS

REQUIRED_ON_NEW ==
    {"uo_cod", "uo_sigla", "acao_cod", "acao_desc", "intervencao_cod",
     "intervencao_desc", "marcos_principais", "valor_previsto_total"}

ColSet == {ALL_COLS[i] : i \in DOMAIN ALL_COLS}

\* df[ALL_COLS] of one row: the canonical columns, the index label dropped.
Canon(r) == [c \in ColSet |-> r[c]]

\* A row of a DataFrame: canonical columns plus the index label.
WithIdx(r, i) == [c \in ColSet \cup {"idx"} |-> IF c = "idx" THEN i ELSE r[c]]

MkRow(uo, sig, ac, acd, iv, ivd, mp, nm, vpt, vrt, pl) ==
    [uo_cod |-> uo, uo_sigla |-> sig, acao_cod |-> ac, acao_desc |-> acd,
     intervencao_cod |-> iv, intervencao_desc |-> ivd, marcos_principais |-> mp,
     novo_marco |-> nm, valor_previsto_total |-> vpt,
     valor_replanejado_total |-> vrt, b1_planejado |-> pl]

(***************************************************************************)
(* Optional values: None is the empty set, a value x is {x}.               *)
(***************************************************************************)
None == {}

Some(x) == {x}

The(o) == CHOOSE x \in o : TRUE

(***************************************************************************)
(* Access control (app.py 71-100, 242-266).  A mapping value is a list of  *)
(* tokens; Absent is a user with no entry in the source.                   *)
(***************************************************************************)
Units == {1, 2}

Tokens == {"*", "1", "2"}

TokenLists == UNION {[1..n -> Tokens] : n \in 0..MaxList}

Absent == [has |-> FALSE, lst |-> <<>>]

Entry(l) == [has |-> TRUE, lst |-> l]

\* int(x) raises ValueError on the wildcard.
IntRaises(t) == t = "*"

IntOf(t) == IF t = "1" THEN 1 ELSE 2

ListRaises(l) == \E i \in DOMAIN l : IntRaises(l[i])

\* load_rbac_from_secrets: ["*"] is kept; any other list goes through int().
SecretsRaises(sec) == sec.has /\ sec.lst # <<"*">> /\ ListRaises(sec.lst)

\* Variant: the YAML entry, when there is one, replaces the secrets entry.
EffectiveListYamlFirst(sec, yml) ==
    IF yml.has /\ yml.lst # <<>> THEN yml.lst ELSE IF sec.has THEN sec.lst ELSE <<>>

\* load_access_yaml keeps the list of the file as it is.
\* allowed_uos_list: the secrets entry, else (when that is empty) the YAML one.
EffectiveList(sec, yml) ==
    LET fromSecrets == IF sec.has THEN sec.lst ELSE <<>>
    IN IF yml.has /\ fromSecrets = <<>> THEN yml.lst ELSE fromSecrets

\* is_admin = ("*" in allowed_uos_list)
IsAdminList(l) == \E i \in DOMAIN l : l[i] = "*"

\* Variant: the run goes on without any permitted unit (default-allow).
BlocksNever(allowed) == FALSE

\* The st.stop() of a non-admin user with no unit.
BlocksEmpty(allowed) == allowed = {}

\* RBAC resolution of one script run: what the run does after it.
\*   st = "error":   an exception ends the run
\*   st = "blocked": st.error + st.stop()
\*   st = "ok":      the run goes on with (is_admin, allowed_uos)
ResolveAccess(sec, yml) ==
    IF SecretsRaises(sec)
    THEN [st |-> "error", is_admin |-> FALSE, allowed_uos |-> None]
    ELSE LET l == EffectiveList(sec, yml)
         IN IF IsAdminList(l)
            THEN [st |-> "ok", is_admin |-> TRUE, allowed_uos |-> None]
            ELSE IF ListRaises(l)
            THEN [st |-> "error", is_admin |-> FALSE, allowed_uos |-> None]
            ELSE LET allowed == {IntOf(l[i]) : i \in DOMAIN l}
                 IN IF BlocksEmpty(allowed)
                    THEN [st |-> "blocked", is_admin |-> FALSE,
                          allowed_uos |-> Some(allowed)]
                    ELSE [st |-> "ok", is_admin |-> FALSE,
                          allowed_uos |-> Some(allowed)]

\* working_uo: the only unit, or the one picked in the selectbox (a selectbox
\* without options returns None).
WorkingChoices(res) ==
    IF res.st # "ok" \/ res.is_admin \/ The(res.allowed_uos) = {} THEN {None}
    ELSE {Some(u) : u \in The(res.allowed_uos)}

(***************************************************************************)
(* Sequences as tables.                                                    *)
(***************************************************************************)
RECURSIVE SelectRows(_, _)
\* df[mask]: the rows whose position is in keep, in order.
SelectRows(df, keep) ==
    IF df = <<>> THEN <<>>
    ELSE LET n == Len(df)
             front == SelectRows(SubSeq(df, 1, n - 1), keep)
         IN IF n \in keep THEN Append(front, df[n]) ELSE front

IdxOf(df) == {df[i].idx : i \in DOMAIN df}

Count(df, r) == Cardinality({i \in DOMAIN df : df[i] = r})

(***************************************************************************)
(* normalize_dataframe (app.py 102-119).                                   *)
(***************************************************************************)
\* Variant: a column absent from the input stays absent.
NormalizeRowPresent(r) ==
    [c \in DOMAIN r |->
        IF c \in NUMERIC_COLS THEN ToFloat(r[c])
        ELSE IF c \in BOOL_COLS THEN ToBool(r[c])
        ELSE r[c]]

\* A column absent from the input is added with None (lines 108-110), the
\* casts follow (112-117) and data[ALL_COLS] drops every other column; the
\* index label of a row is not a column and stays.
NormalizeRow(r) ==
    [c \in ColSet \cup (DOMAIN r \cap {"idx"}) |->
        LET cell == IF c \in DOMAIN r THEN r[c] ELSE NULL
        IN IF c \in NUMERIC_COLS THEN ToFloat(cell)
           ELSE IF c \in BOOL_COLS THEN ToBool(cell)
           ELSE cell]

normalize_dataframe(df) == [i \in DOMAIN df |-> NormalizeRow(df[i])]

(***************************************************************************)
(* normalize_dataframe of applayout.py (119-182).                          *)
(***************************************************************************)
\* Series.str.replace(",", ".") on the texts of the model; the replacement
\* before it (pattern "\[R$\.\s\]") matches no text.
CommaToDot(c) == IF c = "1,5" THEN "1.5" ELSE c

\* Series.str.strip() on the texts of the model.
Strip(c) == IF c = " sim " THEN "sim" ELSE c

TRUE_TOKENS == {"TRUE", "TRUE()", "1", "SIM", "S", "YES", "VERDADEIRO", "X", "OK", "V"}

\* Numeric columns: astype(str), comma to dot, to_numeric, fillna(0.0).
ToFloatLayout(c) == ToFloat(CommaToDot(Str(c)))

\* pd.api.types.is_numeric_dtype of a column: every cell a number or NaN.
IsNumericColumn(df, col) ==
    /\ df # <<>>
    /\ \A i \in DOMAIN df : col \in DOMAIN df[i] /\ (IsNull(df[i][col]) \/ ~IsNaN(df[i][col]))
    /\ \E i \in DOMAIN df : ~IsNaN(df[i][col])

\* The planned columns become "X" / "": a numeric column by != 0, any other
\* by its upper-cased, stripped text being one of TRUE_TOKENS.
ToPlanned(c, numeric) ==
    IF numeric THEN (IF IsNaN(c) \/ NumTable[c] = <<0, 0>> THEN "" ELSE "X")
    ELSE IF Upper(Strip(Str(c))) \in TRUE_TOKENS THEN "X" ELSE ""

NormalizeRowLayout(r, numeric) ==
    [c \in ColSet \cup (DOMAIN r \cap {"idx"}) |->
        LET cell == IF c \in DOMAIN r THEN r[c] ELSE NULL
        IN IF c \in NUMERIC_COLS THEN ToFloatLayout(cell)
           ELSE IF c \in BOOL_COLS THEN ToPlanned(cell, numeric[c])
           ELSE cell]

normalize_layout(df) ==
    [i \in DOMAIN df |->
        NormalizeRowLayout(df[i], [c \in BOOL_COLS |-> IsNumericColumn(df, c)])]

\* The save handler of applayout.py (451-461) sanitises the planned columns
\* of the edited table with a token set of its own.
SAVE_TOKENS == {"X", "TRUE", "1", "SIM", "S", "YES", "VERDADEIRO", "OK", "V"}

SanitizePlanned(c) == IF Upper(Strip(Str(c))) \in SAVE_TOKENS THEN "X" ELSE ""

normalize(v, df) == IF v = "app" THEN normalize_dataframe(df) ELSE normalize_layout(df)

\* Variant: the columns as they stand before data[ALL_COLS].
ColumnsAfterEnsure(cols) ==
    cols \o SelectSeq(ALL_COLS, LAMBDA c : \A k \in DOMAIN cols : cols[k] # c)

\* The column labels of the result: the missing canonical columns are
\* appended (lines 108-110) and data[ALL_COLS] selects the canonical ones.
NormalizeColumns(cols) ==
    LET ensured == cols \o SelectSeq(ALL_COLS, LAMBDA c : \A k \in DOMAIN cols : cols[k] # c)
    IN [k \in DOMAIN ALL_COLS |->
           ensured[CHOOSE j \in DOMAIN ensured : ensured[j] = ALL_COLS[k]]]

(***************************************************************************)
(* Row-level filter (app.py 315-320).                                      *)
(***************************************************************************)
RlsKeep(r, w) == UoInt(r.uo_cod) = w

RowLevelFilter(df, admin, w) ==
    IF admin THEN df
    ELSE SelectRows(df, {i \in DOMAIN df : RlsKeep(df[i], The(w))})

(***************************************************************************)
(* Filters of the editable table (app.py 335-357, 393-397).                *)
(***************************************************************************)
Todas == "Todas"

Options(df, col) == {Todas} \cup {df[i][col] : i \in {j \in DOMAIN df : ~IsNull(df[j][col])}}

ApplySel(df, col, sel) ==
    IF sel = Todas THEN df
    ELSE SelectRows(df, {i \in DOMAIN df : df[i][col] = sel})

\* df_f: the filtered subset handed to the editor.  For a non-admin user the
\* unit column is overwritten with int(working_uo); a missing novo_marco
\* becomes "Nao" (the text written without its tilde).
PrepareRow(r, admin, w) ==
    [c \in DOMAIN r |->
        IF c = "uo_cod" /\ ~admin THEN ToString(The(w))
        ELSE IF c = "novo_marco" THEN (IF IsNull(r[c]) THEN "Nao" ELSE Str(r[c]))
        ELSE r[c]]

FilteredSubset(df, admin, w, uo_sel, acao_sel, interv_sel) ==
    LET a == IF admin THEN ApplySel(df, "uo_sigla", uo_sel) ELSE df
        b == ApplySel(a, "acao_desc", acao_sel)
        c == ApplySel(b, "intervencao_desc", interv_sel)
    IN [i \in DOMAIN c |-> PrepareRow(c[i], admin, w)]

(***************************************************************************)
(* validate_new_rows (app.py 121-196).                                     *)
(***************************************************************************)
MsgRequired == "Necessario preencher todos os campos da linha nova."

MsgNoUnit == "Ha linhas sem UO definida."

MsgNotAllowed == "Voce so pode visualizar/editar sua(s) UO(s) autorizada(s)."

MsgPinned == "As linhas devem permanecer na UO de trabalho."

\* The composite key as a tuple of string-coerced values.
KeyOf(r) ==
    <<Str(r.uo_cod), Str(r.acao_cod), Str(r.intervencao_cod),
      Str(r.marcos_principais)>>

KeySet(df) == {KeyOf(df[i]) : i \in DOMAIN df}

\* new_keys = after_idx - before_idx
NewKeys(before, after) == KeySet(after) \ KeySet(before)

\* Variant: only isnull() is tested, an empty string passes.
RequiredBlankNullOnly(r) == \E c \in REQUIRED_ON_NEW : IsNull(r[c])

\* new_rows[REQUIRED_ON_NEW].isnull() or == ""
RequiredBlank(r) == \E c \in REQUIRED_ON_NEW : IsNull(r[c]) \/ r[c] = ""

\* Variant: the assignment without the is_new mask.
StampAll(after, new_keys) ==
    [i \in DOMAIN after |->
        IF new_keys # {} THEN [after[i] EXCEPT !["novo_marco"] = "Sim"] ELSE after[i]]

\* df_after.loc[is_new, "novo_marco"] = "Sim"
StampNew(after, new_keys) ==
    [i \in DOMAIN after |->
        IF KeyOf(after[i]) \in new_keys
        THEN [after[i] EXCEPT !["novo_marco"] = "Sim"]
        ELSE after[i]]

\* set(pd.to_numeric(df_after["uo_cod"], errors="coerce").fillna(-1).astype(int))
UosPresent(df) == {UoInt(df[i].uo_cod) : i \in DOMAIN df}

\* if working_uo is not None and (uos - {working_uo})
PinnedViolated(uos, working) == working # None /\ uos \ working # {}

\* if allowed_uos is None or not uos.issubset(set(allowed_uos))
NotAllowed(uos, allowed) == allowed = None \/ ~(uos \subseteq The(allowed))

validate_new_rows(before, after, allowed, admin, working) ==
    LET new_keys == NewKeys(before, after)
        new_rows == {i \in DOMAIN after : KeyOf(after[i]) \in new_keys}
        stamped == StampNew(after, new_keys)
        uos == UosPresent(stamped)
    IN IF \E i \in new_rows : RequiredBlank(after[i])
       THEN [ok |-> FALSE, msg |-> MsgRequired, df |-> after]
       ELSE IF admin
       THEN [ok |-> TRUE, msg |-> "", df |-> stamped]
       ELSE IF \E i \in DOMAIN stamped : IsNull(stamped[i].uo_cod)
       THEN [ok |-> FALSE, msg |-> MsgNoUnit, df |-> stamped]
       ELSE IF NotAllowed(uos, allowed)
       THEN [ok |-> FALSE, msg |-> MsgNotAllowed, df |-> stamped]
       ELSE IF PinnedViolated(uos, working)
       THEN [ok |-> FALSE, msg |-> MsgPinned, df |-> stamped]
       ELSE [ok |-> TRUE, msg |-> "", df |-> stamped]

(***************************************************************************)
(* Merge-back (app.py 423-426).                                            *)
(***************************************************************************)
\* Variant: the filtered subset matched by position (a reset index).
MaskByPosition(raw, filtered) == {i \in DOMAIN raw : i <= Len(filtered)}

\* mask_to_drop = data_raw.index.isin(df_f.index)
MaskToDrop(raw, filtered) == {i \in DOMAIN raw : raw[i].idx \in IdxOf(filtered)}

\* Variant: the remainder taken from the normalised table, not from data_raw.
MergeBackNormalised(raw, filtered, edited) ==
    LET data_sem == SelectRows(raw, {i \in DOMAIN raw : raw[i].idx \notin IdxOf(filtered)})
        cat == normalize_dataframe(data_sem) \o edited
    IN [i \in DOMAIN cat |-> Canon(cat[i])]

\* Variant: the filtered rows are not dropped from data_raw before the concat.
MergeBackNoDrop(raw, filtered, edited) ==
    LET cat == raw \o edited
    IN [i \in DOMAIN cat |-> Canon(cat[i])]

\* pd.concat([data_sem, edited_df], ignore_index=True)[ALL_COLS]
MergeBack(raw, filtered, edited) ==
    LET data_sem == SelectRows(raw, DOMAIN raw \ MaskToDrop(raw, filtered))
        cat == data_sem \o edited
    IN [i \in DOMAIN cat |-> Canon(cat[i])]

\* Variant: the write is not gated by the validation result.
SaveProceedsAlways(v) == TRUE

\* if not is_valid: st.error(...); st.stop()
SaveProceeds(v) == v.ok

(***************************************************************************)
(* State.                                                                  *)
(***************************************************************************)
(***************************************************************************)
(* Dimensional views: load_execucao_view of app.py (variant "app") and     *)
(* load_rp_view of my_pkg/transform/rp_view.py (variant "rp").  A fact or  *)
(* dimension table is a sequence of records of cells; money values are     *)
(* integers in tenths.                                                     *)
(***************************************************************************)
FILTER_COLS == {"fonte_cod", "ipu_cod", "uo_cod"}

FONTE_PROPAG == 89

IPU_PROPAG == 0

UO_EXCLUIDA == 1261

\* pd.to_numeric(errors="coerce") of a cell that holds an integer or nothing.
CoerceNum(c) == IF IsNaN(c) THEN NULL ELSE c

\* pd.to_numeric(errors="coerce").fillna(0)
CoerceFill0(c) == IF IsNaN(c) THEN "0" ELSE c

\* The column rewrite of _apply_global_filter, done on the frame it is given.
CoerceFilterCols(df, v) ==
    [i \in DOMAIN df |->
        [c \in DOMAIN df[i] |->
            IF c \in FILTER_COLS
            THEN (IF v = "app" THEN CoerceNum(df[i][c]) ELSE CoerceFill0(df[i][c]))
            ELSE df[i][c]]]

\* series == n  (NaN == n is False)
NumEq(c, n) == ~IsNaN(c) /\ NumTable[c] = <<n, 0>>

\* Variant: the mask without the exclusion of unit 1261.
GlobalMaskNoExclusion(r) == NumEq(r.fonte_cod, FONTE_PROPAG) \/ NumEq(r.ipu_cod, IPU_PROPAG)

\* ((fonte_cod == 89) | (ipu_cod == 0)) & (uo_cod != 1261)
GlobalMask(r) ==
    /\ NumEq(r.fonte_cod, FONTE_PROPAG) \/ NumEq(r.ipu_cod, IPU_PROPAG)
    /\ ~NumEq(r.uo_cod, UO_EXCLUIDA)

\* _apply_global_filter: the rows of the coerced frame that satisfy the mask.
apply_global_filter(df, v) ==
    LET co == CoerceFilterCols(df, v)
    IN SelectRows(co, {i \in DOMAIN co : GlobalMask(co[i])})

\* .astype("Int64"): a nullable integer, written as its decimal text.
ToInt64(c) == IF IsNaN(c) THEN NULL ELSE ToString(NumTable[c][1])

\* pd.to_numeric(errors="coerce").fillna(0.0) of a money cell, in tenths.
Money(c) == IF IsNaN(c) THEN 0 ELSE NumTable[c][1] * 10 + NumTable[c][2]

\* Variant: the restriction is not applied.
RestrictRowsIgnored(df, u) == df

\* df.loc[uo_cod == int(restrict_uo)]
RestrictRows(df, u) ==
    IF u = None THEN df
    ELSE SelectRows(df, {i \in DOMAIN df : NumEq(df[i].uo_cod, The(u))})

\* Equality of two join keys (a missing key matches nothing).
KeyEq(a, b) == ~IsNaN(a) /\ ~IsNaN(b) /\ NumTable[a] = NumTable[b]

\* drop_duplicates(): a row is kept unless an equal row precedes it.
DropDuplicateRows(dim) ==
    SelectRows(dim, {i \in DOMAIN dim : \A j \in 1..(i - 1) : dim[j] # dim[i]})

\* drop_duplicates(subset=["ano", code]): the first row of each key is kept.
DropDuplicateKeys(dim) ==
    SelectRows(dim, {i \in DOMAIN dim :
        \A j \in 1..(i - 1) : ~(dim[j].ano = dim[i].ano /\ dim[j].cod = dim[i].cod)})

\* The dimension table a loader returns for a dimension file.
LoadDim(dim, v) == IF v = "app" THEN DropDuplicateRows(dim) ELSE DropDuplicateKeys(dim)

RECURSIVE Flatten(_)
Flatten(ss) == IF ss = <<>> THEN <<>> ELSE Head(ss) \o Flatten(Tail(ss))

Extend(r, col, val) == [c \in DOMAIN r \cup {col} |-> IF c = col THEN val ELSE r[c]]

\* Variant: an inner join, a row without match is dropped.
InnerMerge(df, dim, code, desc) ==
    Flatten([i \in DOMAIN df |->
        LET m == SelectRows(dim, {j \in DOMAIN dim :
                    KeyEq(df[i].ano, dim[j].ano) /\ KeyEq(df[i][code], dim[j].cod)})
        IN [k \in DOMAIN m |-> Extend(df[i], desc, m[k].desc)]])

\* df.merge(dim, on=["ano", code], how="left")
LeftMerge(df, dim, code, desc) ==
    Flatten([i \in DOMAIN df |->
        LET m == SelectRows(dim, {j \in DOMAIN dim :
                    KeyEq(df[i].ano, dim[j].ano) /\ KeyEq(df[i][code], dim[j].cod)})
        IN IF m = <<>> THEN <<Extend(df[i], desc, NULL)>>
           ELSE [k \in DOMAIN m |-> Extend(df[i], desc, m[k].desc)]])

\* cols_base of _calculate_metrics.
COLS_BASE ==
    {"vlr_inscrito_rpp", "vlr_cancelado_rpp", "vlr_desconto_rpp", "vlr_restabelecido_rpp",
     "vlr_pago_rpp", "vlr_anulacao_pagamento_rpp", "vlr_retencao_rpp",
     "vlr_anulacao_retencao_rpp", "vlr_saldo_rpp", "vlr_inscrito_rpnp",
     "vlr_cancelado_rpnp", "vlr_restabelecido_rpnp", "vlr_despesa_liquidada_rpnp",
     "vlr_saldo_rpnp", "vlr_despesa_liquidada_pagar"}

\* A base column after "if c not in df.columns: 0.0 else to_numeric().fillna(0.0)".
Base(r, c) == IF c \in DOMAIN r THEN Money(r[c]) ELSE 0

\* Variant: the discount is subtracted from the cancelled amount.
CalcCanceladoRppMinus(r) ==
    Base(r, "vlr_cancelado_rpp") - Base(r, "vlr_desconto_rpp") - Base(r, "vlr_restabelecido_rpp")

CalcCanceladoRpp(r) ==
    Base(r, "vlr_cancelado_rpp") + Base(r, "vlr_desconto_rpp") - Base(r, "vlr_restabelecido_rpp")

CalcPagoRpp(r) ==
    Base(r, "vlr_pago_rpp") - Base(r, "vlr_anulacao_pagamento_rpp")
    + Base(r, "vlr_retencao_rpp") - Base(r, "vlr_anulacao_retencao_rpp")

CalcCanceladoRpnp(r) == Base(r, "vlr_cancelado_rpnp") - Base(r, "vlr_restabelecido_rpnp")

CalcPagoRpnp(r) ==
    Base(r, "vlr_saldo_rpp") + Base(r, "vlr_despesa_liquidada_rpnp")
    - Base(r, "vlr_despesa_liquidada_pagar")

\* The derived columns of one row.
CalcCols(r) ==
    [calc_inscrito_rpp |-> Base(r, "vlr_inscrito_rpp"),
     calc_cancelado_rpp |-> CalcCanceladoRpp(r),
     calc_pago_rpp |-> CalcPagoRpp(r),
     calc_saldo_rpp |-> Base(r, "vlr_saldo_rpp"),
     calc_inscrito_rpnp |-> Base(r, "vlr_inscrito_rpnp"),
     calc_cancelado_rpnp |-> CalcCanceladoRpnp(r),
     calc_liquidado_rpnp |-> Base(r, "vlr_despesa_liquidada_rpnp"),
     calc_saldo_rpnp |-> Base(r, "vlr_saldo_rpnp"),
     calc_pago_rpnp |-> CalcPagoRpnp(r)]

\* _calculate_metrics: the base columns become numbers, the derived ones are added.
calculate_metrics(df) ==
    [i \in DOMAIN df |->
        CalcCols(df[i]) @@ [c \in COLS_BASE |-> Base(df[i], c)] @@ df[i]]

\* The action and expense-item dimension files.
DimAcaoFile == <<[ano |-> "2026", cod |-> "100", desc |-> "Obras"]>>

DimEliFile == <<[ano |-> "2026", cod |-> "3", desc |-> "Servicos"]>>

\* The three left joins, in sequence.
JoinDims(df, dimfile, v) ==
    LeftMerge(
        LeftMerge(
            LeftMerge(df, LoadDim(dimfile, v), "uo_cod", "uo_sigla"),
            LoadDim(DimAcaoFile, v), "acao_cod", "acao_desc"),
        LoadDim(DimEliFile, v), "elemento_item_cod", "elemento_item_desc")

\* app.py: keep = EXEC_VIEW_COLS, money as float, codes as Int64.
ExecOut(r) ==
    [ano |-> r.ano, uo_cod |-> ToInt64(r.uo_cod), uo_sigla |-> r.uo_sigla,
     acao_cod |-> ToInt64(r.acao_cod), acao_desc |-> r.acao_desc,
     fonte_cod |-> ToInt64(r.fonte_cod), ipu_cod |-> ToInt64(r.ipu_cod),
     elemento_item_cod |-> ToInt64(r.elemento_item_cod),
     elemento_item_desc |-> r.elemento_item_desc,
     num_empenho |-> ToInt64(r.num_empenho),
     vlr_liquidado |-> Money(r.vlr_liquidado)]

\* load_execucao_view of app.py.
load_execucao_view(df, dimfile, u) ==
    LET filtered == apply_global_filter(df, "app")
        joined == JoinDims(RestrictRows(filtered, u), dimfile, "app")
    IN [i \in DOMAIN joined |-> ExecOut(joined[i])]

\* _ensure_join_types on the join keys of the fact table.
JoinKeysInt64(r) ==
    [c \in DOMAIN r |->
        IF c \in {"ano", "uo_cod", "acao_cod", "elemento_item_cod"} THEN ToInt64(r[c]) ELSE r[c]]

\* .astype(str).replace("nan", "").replace("<NA>", "")
TextDim(c) == IF c = NULL \/ c = "nan" THEN "" ELSE c

\* rp_view.py: description fill, text columns, RP_VIEW_COLS.
RpOut(r) ==
    [ano |-> ToInt64(r.ano), uo_cod |-> r.uo_cod, acao_cod |-> r.acao_cod,
     elemento_item_cod |-> r.elemento_item_cod,
     uo_sigla |-> TextDim(IF IsNull(r.uo_sigla) THEN "UO-" \o r.uo_cod ELSE r.uo_sigla),
     acao_desc |-> TextDim(IF IsNull(r.acao_desc) THEN "Acao " \o r.acao_cod ELSE r.acao_desc),
     elemento_item_desc |-> TextDim(r.elemento_item_desc),
     fonte_cod |-> ToInt64(r.fonte_cod), ipu_cod |-> ToInt64(r.ipu_cod),
     num_empenho |-> TextDim(r.num_empenho),
     calc_inscrito_rpp |-> r.calc_inscrito_rpp,
     calc_cancelado_rpp |-> r.calc_cancelado_rpp,
     calc_pago_rpp |-> r.calc_pago_rpp,
     calc_saldo_rpp |-> r.calc_saldo_rpp,
     calc_inscrito_rpnp |-> r.calc_inscrito_rpnp,
     calc_cancelado_rpnp |-> r.calc_cancelado_rpnp,
     calc_liquidado_rpnp |-> r.calc_liquidado_rpnp,
     calc_saldo_rpnp |-> r.calc_saldo_rpnp,
     calc_pago_rpnp |-> r.calc_pago_rpnp]

\* load_rp_view of rp_view.py.
load_rp_view(df, dimfile, u) ==
    LET filtered == apply_global_filter(df, "rp")
        metrics == calculate_metrics(filtered)
        keyed == [i \in DOMAIN metrics |-> JoinKeysInt64(metrics[i])]
        joined == JoinDims(RestrictRows(keyed, u), dimfile, "rp")
    IN [i \in DOMAIN joined |-> RpOut(joined[i])]

\* The view loader of a variant.
load_view(v, df, dimfile, u) ==
    IF v = "app" THEN load_execucao_view(df, dimfile, u) ELSE load_rp_view(df, dimfile, u)

(***************************************************************************)
(* Pivot aggregation: app.py 685-700 (variant "app") and applayout.py      *)
(* 556-569 (variant "layout").  Measures of the wide table are numbers.    *)
(***************************************************************************)
Range(f) == {f[k] : k \in DOMAIN f}

\* The values of the selected dimension columns of a row.
Combo(r, dims) == [k \in DOMAIN dims |-> r[dims[k]]]

Combos(df, dims) == {Combo(df[i], dims) : i \in DOMAIN df}

\* Sort order of the dimension values (a null value sorts last).
Rank(c) ==
    CASE c = "2025" -> 1 [] c = "2026" -> 2 [] c = "DER" -> 3 [] c = "SEE" -> 4
      [] OTHER -> 5

\* Lexicographic order of two combinations.
ComboLeq(x, y) ==
    \A k \in DOMAIN x :
        (\A j \in 1..(k - 1) : x[j] = y[j]) => Rank(x[k]) <= Rank(y[k])

RECURSIVE SortCombos(_)
SortCombos(S) ==
    IF S = {} THEN <<>>
    ELSE LET m == CHOOSE x \in S : \A y \in S : ComboLeq(x, y)
         IN <<m>> \o SortCombos(S \ {m})

RECURSIVE SumOver(_, _, _)
SumOver(df, I, m) ==
    IF I = {} THEN 0
    ELSE LET i == CHOOSE x \in I : TRUE
         IN df[i][m] + SumOver(df, I \ {i}, m)

\* The rows of a group.
Group(df, dims, combo) == {i \in DOMAIN df : Combo(df[i], dims) = combo}

\* Variant: the first row of the group stands for the group.
GroupRowFirst(df, dims, meas, combo) ==
    LET first == CHOOSE i \in Group(df, dims, combo) : \A j \in Group(df, dims, combo) : i <= j
    IN [c \in Range(dims) \cup Range(meas) |-> df[first][c]]

\* One row of groupby(dims, dropna=False)[meas].sum().reset_index()
GroupRow(df, dims, meas, combo) ==
    [c \in Range(dims) \cup Range(meas) |->
        IF c \in Range(dims)
        THEN combo[CHOOSE k \in DOMAIN dims : dims[k] = c]
        ELSE SumOver(df, Group(df, dims, combo), c)]

\* groupby(...).sum().reset_index(): one row per combination, in key order.
GroupBySum(df, dims, meas) ==
    LET keys == SortCombos(Combos(df, dims))
    IN [k \in DOMAIN keys |-> GroupRow(df, dims, meas, keys[k])]

\* Variant: the total of the first row only.
TotalRowFirst(df, meas) == [c \in Range(meas) |-> IF df = <<>> THEN 0 ELSE df[1][c]]

\* The single row of totals.
TotalRow(df, meas) == [c \in Range(meas) |-> SumOver(df, DOMAIN df, c)]

\* df[dims].drop_duplicates().reset_index(drop=True)
DistinctCombos(df, dims) ==
    DropDuplicateRows([i \in DOMAIN df |-> [c \in Range(dims) |-> df[i][c]]])

\* app.py 685-700: None when nothing is selected.
aggregate_app(df, dims, meas) ==
    IF dims = <<>> /\ meas = <<>> THEN None
    ELSE IF dims # <<>> /\ meas # <<>> THEN Some(GroupBySum(df, dims, meas))
    ELSE IF dims # <<>> THEN Some(DistinctCombos(df, dims))
    ELSE Some(<<TotalRow(df, meas)>>)

\* agg_df[sel_meas].sum(axis=1) of one row
RowTotal(r, meas) == SumOver([k \in DOMAIN meas |-> [v |-> r[meas[k]]]], DOMAIN meas, "v")

\* agg_df.loc[agg_df[sel_meas].sum(axis=1) != 0]
RemoveZeroRows(t, meas) == SelectRows(t, {i \in DOMAIN t : RowTotal(t[i], meas) # 0})

\* applayout.py 556-569: None when no measure is selected.
aggregate_layout(df, dims, meas, hide) ==
    IF meas = <<>> THEN None
    ELSE LET agg == IF dims = <<>> THEN <<TotalRow(df, meas)>> ELSE GroupBySum(df, dims, meas)
         IN Some(IF hide THEN RemoveZeroRows(agg, meas) ELSE agg)

aggregate(v, df, dims, meas, hide) ==
    IF v = "app" THEN aggregate_app(df, dims, meas) ELSE aggregate_layout(df, dims, meas, hide)

VARIABLES
    rbac_secrets,   \* st.secrets["rbac"][username], or Absent
    rbac_yaml,      \* access_control.yaml users[username].allowed_uos, or Absent
    store,          \* the worksheet: a sequence of rows (no index labels)
    pc,             \* where the script run of the session stands
    is_admin,
    allowed_uos,    \* None, or Some(set of units)
    working_uo,     \* None, or Some(unit)
    data_raw,       \* conn.read(...)
    data,           \* normalised table after the row-level filter
    df_f,           \* filtered subset handed to the editor
    edited_df,      \* what the editor returns
    is_valid,
    msg,
    validated_df,   \* the table validate_new_rows returns
    final_df,       \* the table handed to conn.update
    io,             \* the external operations the session has performed
    writes,         \* number of conn.update calls
    nEdits,
    variant,        \* which source file's view / pivot code runs
    fact,           \* the cached raw fact table (_load_*_raw)
    dim_uo,         \* the unit dimension file
    restrict_uo,    \* None, or Some(unit)
    wide,           \* the table the view loader returns
    cache,          \* None, or Some(the frame the memoised raw loader holds)
    nLoads,         \* number of view loads
    sel_dims,       \* selected dimension columns
    sel_meas,       \* selected measure columns
    remove_zero,    \* the "Ocultar linhas zeradas" toggle
    agg_df,         \* None (nothing rendered), or Some(aggregated table)
    raw_columns,    \* column labels of the table read
    columns,        \* column labels of the normalised table
    sess,           \* the script runs of the users who share the worksheet
    saves           \* the runs that wrote the worksheet, in order

vars ==
    <<rbac_secrets, rbac_yaml, store, pc, is_admin, allowed_uos, working_uo,
      data_raw, data, df_f, edited_df, is_valid, msg, validated_df, final_df,
      io, writes, nEdits, variant, fact, dim_uo, restrict_uo, wide, cache, nLoads,
      sel_dims, sel_meas, remove_zero, agg_df, raw_columns, columns, sess, saves>>

sharedVars == <<sess, saves>>

colVars == <<raw_columns, columns>>

viewVars == <<variant, fact, dim_uo, restrict_uo, wide, cache, nLoads>>

pivotVars == <<sel_dims, sel_meas, remove_zero, agg_df>>

configVars == <<rbac_secrets, rbac_yaml>>

accessVars == <<is_admin, allowed_uos, working_uo>>

tableVars == <<data_raw, data, df_f, edited_df>>

saveVars == <<is_valid, msg, validated_df, final_df>>

(***************************************************************************)
(* Input domains.                                                          *)
(***************************************************************************)
UoCells == {"1", "2", "1.5", NULL}

SiglaOf(uo) == IF IsNaN(uo) THEN NULL ELSE IF UoInt(uo) = 1 THEN "U1" ELSE "U2"

\* Rows of the worksheet: raw cells, as typed in the spreadsheet.
SheetRow(uo, a) ==
    IF a = "A"
    THEN MkRow(uo, SiglaOf(uo), "10", "A", "7", "I", "m1", NULL, "100", "5", "SIM")
    ELSE MkRow(uo, SiglaOf(uo), "20", "B", "7", "I", "m1", "Sim", "100", "abc", "x")

SheetRows == {SheetRow(uo, a) : uo \in UoCells, a \in {"A", "B"}}

Sheets == UNION {[1..n -> SheetRows] : n \in 1..MaxRows}

\* Rows the user can add in the editor.
AddedRows ==
    {WithIdx(MkRow(uo, SiglaOf(uo), "10", "A", "7", "I", x[1], "Nao", x[2], "0.0", "False"), 0) :
        uo \in {"1", "2"}, x \in {<<"m1", "100">>, <<"m2", "100">>, <<"m2", "">>}}

\* The (secrets, YAML) entries of the user of the session.
SessionConfigs ==
    {<<Absent, Absent>>, <<Absent, Entry(<<"2">>)>>, <<Entry(<<"*">>), Absent>>,
     <<Entry(<<"1">>), Entry(<<"2">>)>>, <<Entry(<<"1", "2">>), Absent>>}

\* No other run shares the worksheet.
NoSessions ==
    /\ sess = <<>>
    /\ saves = <<>>

\* No view has been loaded.
NoView ==
    /\ variant = "app"
    /\ fact = <<>>
    /\ dim_uo = <<>>
    /\ restrict_uo = None
    /\ wide = <<>>
    /\ cache = None
    /\ nLoads = 0

\* The worksheet carries the canonical header.
CanonicalColumns ==
    /\ raw_columns = ALL_COLS
    /\ columns = ALL_COLS

\* No pivot table has been asked for.
NoPivot ==
    /\ sel_dims = <<>>
    /\ sel_meas = <<>>
    /\ remove_zero = FALSE
    /\ agg_df = None

(***************************************************************************)
(* The session of app.py.                                                  *)
(***************************************************************************)
Init ==
    /\ NoSessions
    /\ \E c \in SessionConfigs : rbac_secrets = c[1] /\ rbac_yaml = c[2]
    /\ store \in Sheets
    /\ pc = "start"
    /\ is_admin = FALSE
    /\ allowed_uos = None
    /\ working_uo = None
    /\ data_raw = <<>>
    /\ data = <<>>
    /\ df_f = <<>>
    /\ edited_df = <<>>
    /\ is_valid = FALSE
    /\ msg = ""
    /\ validated_df = <<>>
    /\ final_df = <<>>
    /\ io = {}
    /\ writes = 0
    /\ nEdits = 0
    /\ NoView
    /\ NoPivot
    /\ CanonicalColumns

\* app.py 242-266: RBAC resolution and the choice of the working unit.
Resolve ==
    /\ pc = "start"
    /\ LET res == ResolveAccess(rbac_secrets, rbac_yaml)
       IN /\ pc' = (IF res.st = "ok" THEN "ready" ELSE res.st)
          /\ is_admin' = res.is_admin
          /\ allowed_uos' = res.allowed_uos
          /\ working_uo' \in WorkingChoices(res)
    /\ UNCHANGED <<sharedVars, colVars, viewVars, pivotVars, configVars, store, tableVars, saveVars, io, writes, nEdits>>

\* app.py 271-320: load_metrics, conn.read, normalize_dataframe, row-level
\* filter.  int(working_uo) raises for a non-admin user without working unit.
Read ==
    /\ pc = "ready"
    /\ io' = io \cup {"metrics", "read"}
    /\ data_raw' = [i \in DOMAIN store |-> WithIdx(store[i], i)]
    /\ IF ~is_admin /\ working_uo = None
       THEN /\ pc' = "error"
            /\ data' = <<>>
       ELSE /\ pc' = "loaded"
            /\ data' = RowLevelFilter(normalize_dataframe(data_raw'), is_admin, working_uo)
    /\ UNCHANGED <<sharedVars, colVars, viewVars, pivotVars, configVars, store, accessVars, df_f, edited_df, saveVars, writes, nEdits>>

\* app.py 307-311: the read raises; st.error and st.stop().
ReadFails ==
    /\ pc = "ready"
    /\ io' = io \cup {"metrics", "read"}
    /\ pc' = "stopped"
    /\ UNCHANGED <<sharedVars, colVars, viewVars, pivotVars, configVars, store, accessVars, tableVars, saveVars, writes, nEdits>>

\* app.py 325-406: the three selectboxes and the editor's initial content.
\* With neither an action nor an intervention selected the run stops.
Select ==
    /\ pc = "loaded"
    /\ \E uo_sel \in (IF is_admin THEN Options(data, "uo_sigla") ELSE {Todas}) :
         LET a == IF is_admin THEN ApplySel(data, "uo_sigla", uo_sel) ELSE data
         IN \E acao_sel \in Options(a, "acao_desc"),
               interv_sel \in Options(a, "intervencao_desc") :
              IF acao_sel = Todas /\ interv_sel = Todas
              THEN /\ pc' = "stopped"
                   /\ UNCHANGED <<df_f, edited_df>>
              ELSE /\ pc' = "editing"
                   /\ df_f' = FilteredSubset(data, is_admin, working_uo,
                                             uo_sel, acao_sel, interv_sel)
                   /\ edited_df' = df_f'
    /\ UNCHANGED <<sharedVars, colVars, viewVars, pivotVars, configVars, store, accessVars, data_raw, data, saveVars, io, writes, nEdits>>

\* The editor (st.data_editor, num_rows="dynamic"): one change of its content.
EditValue ==
    /\ pc = "editing" /\ nEdits < MaxEdits
    /\ \E i \in DOMAIN edited_df, v \in {"7.0"} :
         /\ edited_df[i].valor_replanejado_total # v
         /\ edited_df' = [edited_df EXCEPT ![i]["valor_replanejado_total"] = v]
    /\ nEdits' = nEdits + 1
    /\ UNCHANGED <<sharedVars, colVars, viewVars, pivotVars, configVars, store, pc, accessVars, data_raw, data, df_f, saveVars, io, writes>>

EditNovoMarco ==
    /\ pc = "editing" /\ nEdits < MaxEdits
    /\ \E i \in DOMAIN edited_df :
         edited_df' = [edited_df EXCEPT ![i]["novo_marco"] =
                          IF edited_df[i].novo_marco = "Sim" THEN "Nao" ELSE "Sim"]
    /\ nEdits' = nEdits + 1
    /\ UNCHANGED <<sharedVars, colVars, viewVars, pivotVars, configVars, store, pc, accessVars, data_raw, data, df_f, saveVars, io, writes>>

DeleteRow ==
    /\ pc = "editing" /\ nEdits < MaxEdits
    /\ \E i \in DOMAIN edited_df :
         edited_df' = SelectRows(edited_df, DOMAIN edited_df \ {i})
    /\ nEdits' = nEdits + 1
    /\ UNCHANGED <<sharedVars, colVars, viewVars, pivotVars, configVars, store, pc, accessVars, data_raw, data, df_f, saveVars, io, writes>>

AddRow ==
    /\ pc = "editing" /\ nEdits < MaxEdits
    /\ \E r \in AddedRows : edited_df' = Append(edited_df, r)
    /\ nEdits' = nEdits + 1
    /\ UNCHANGED <<sharedVars, colVars, viewVars, pivotVars, configVars, store, pc, accessVars, data_raw, data, df_f, saveVars, io, writes>>

\* The arguments of the call at app.py 412-418.
CallAllowed == IF allowed_uos # None /\ The(allowed_uos) # {} THEN allowed_uos ELSE None

CallWorking == IF is_admin THEN None ELSE working_uo

\* app.py 411-433: the save button.  Validation, then merge-back and write;
\* a rejected table stops the run, a written one reruns the script.
Save ==
    /\ pc = "editing" /\ writes < MaxSaves
    /\ LET v == validate_new_rows(df_f, edited_df, CallAllowed, is_admin, CallWorking)
       IN /\ is_valid' = v.ok
          /\ msg' = v.msg
          /\ validated_df' = v.df
          /\ IF SaveProceeds(v)
             THEN /\ final_df' = MergeBack(data_raw, df_f, v.df)
                  /\ store' = final_df'
                  /\ writes' = writes + 1
                  /\ io' = io \cup {"write"}
                  /\ pc' = "saved"
             ELSE /\ pc' = "rejected"
                  /\ UNCHANGED <<final_df, store, writes, io>>
    /\ UNCHANGED <<sharedVars, colVars, viewVars, pivotVars, configVars, accessVars, tableVars, nEdits>>

\* app.py 428-435: conn.update raises; the error is shown, nothing is stored
\* and the run goes on.
SaveWriteFails ==
    /\ pc = "editing" /\ writes < MaxSaves
    /\ LET v == validate_new_rows(df_f, edited_df, CallAllowed, is_admin, CallWorking)
       IN /\ SaveProceeds(v)
          /\ is_valid' = v.ok
          /\ msg' = v.msg
          /\ validated_df' = v.df
          /\ final_df' = MergeBack(data_raw, df_f, v.df)
    /\ writes' = writes + 1
    /\ io' = io \cup {"write"}
    /\ pc' = "writefail"
    /\ UNCHANGED <<sharedVars, colVars, viewVars, pivotVars, configVars, store, accessVars, tableVars, nEdits>>

\* app.py 540-541: the run reaches the execution section and loads its view;
\* the run then ends.
ViewSection ==
    /\ pc \in {"editing", "writefail"}
    /\ io' = io \cup {"view"}
    /\ pc' = "done"
    /\ UNCHANGED <<sharedVars, colVars, viewVars, pivotVars, configVars, store, accessVars, tableVars, saveVars, writes, nEdits>>

\* The next interaction of the user runs the script again from the top.
Rerun ==
    /\ pc \in {"blocked", "error", "stopped", "rejected", "saved", "done"}
    /\ pc' = "start"
    /\ is_admin' = FALSE
    /\ allowed_uos' = None
    /\ working_uo' = None
    /\ data_raw' = <<>>
    /\ data' = <<>>
    /\ df_f' = <<>>
    /\ edited_df' = <<>>
    /\ is_valid' = FALSE
    /\ msg' = ""
    /\ validated_df' = <<>>
    /\ final_df' = <<>>
    /\ nEdits' = 0
    /\ UNCHANGED <<sharedVars, colVars, viewVars, pivotVars, configVars, store, io, writes>>

Next ==
    \/ Resolve
    \/ Read
    \/ ReadFails
    \/ Select
    \/ EditValue
    \/ EditNovoMarco
    \/ DeleteRow
    \/ AddRow
    \/ Save
    \/ SaveWriteFails
    \/ ViewSection
    \/ Rerun

Spec == Init /\ [][Next]_vars

(***************************************************************************)
(* validate_new_rows applied to arbitrary arguments.                       *)
(***************************************************************************)
KeyRow(uo, mp, nm) ==
    WithIdx(MkRow(uo, SiglaOf(uo), "10", "A", "7", "I", mp, nm, "100", "5.0", "True"), 0)

\* Rows of df_before: only their keys matter to the validator.
BeforeRows == {KeyRow(uo, mp, "Nao") : uo \in {"1", "2"}, mp \in {"m1", "m2"}}

\* Rows of df_after: complete rows of units 1 and 2, and rows with a
\* fractional, unparsable or missing unit code or a blank required field.
AfterRows ==
    {KeyRow(uo, mp, nm) : uo \in {"1", "2"}, mp \in {"m1", "m2"}, nm \in {"Sim", "Nao"}}
    \cup {KeyRow(uo, "m2", "Nao") : uo \in {"1.5", "abc", NULL}}
    \cup {[KeyRow("1", "m2", "Nao") EXCEPT !["valor_previsto_total"] = ""],
          [KeyRow("1", "m2", "Nao") EXCEPT !["uo_sigla"] = NULL]}

Befores == UNION {[1..n -> BeforeRows] : n \in 0..MaxBefore}

Afters == UNION {[1..n -> AfterRows] : n \in 0..MaxAfter}

\* (is_admin, allowed_uos, working_uo)
Callers ==
    {<<TRUE, None, None>>}
    \cup {<<FALSE, a, w>> : a \in {None, Some({1}), Some({1, 2})}, w \in {None, Some(1)}}

InitValidate ==
    /\ NoSessions
    /\ rbac_secrets = Absent
    /\ rbac_yaml = Absent
    /\ store = <<>>
    /\ pc = "call"
    /\ \E c \in Callers : is_admin = c[1] /\ allowed_uos = c[2] /\ working_uo = c[3]
    /\ data_raw = <<>>
    /\ data = <<>>
    /\ df_f \in Befores
    /\ edited_df \in Afters
    /\ is_valid = FALSE
    /\ msg = ""
    /\ validated_df = <<>>
    /\ final_df = <<>>
    /\ io = {}
    /\ writes = 0
    /\ nEdits = 0
    /\ NoView
    /\ NoPivot
    /\ CanonicalColumns

Validate ==
    /\ pc = "call"
    /\ LET v == validate_new_rows(df_f, edited_df, allowed_uos, is_admin, working_uo)
       IN /\ is_valid' = v.ok
          /\ msg' = v.msg
          /\ validated_df' = v.df
    /\ pc' = "validated"
    /\ UNCHANGED <<sharedVars, colVars, viewVars, pivotVars, configVars, store, accessVars, tableVars, final_df, io, writes, nEdits>>

SpecValidate == InitValidate /\ [][Validate]_vars

(***************************************************************************)
(* RBAC resolution applied to arbitrary mapping values.                    *)
(***************************************************************************)
MappingValues == {Absent} \cup {Entry(l) : l \in TokenLists}

InitRbac ==
    /\ NoSessions
    /\ rbac_secrets \in MappingValues
    /\ rbac_yaml \in MappingValues
    /\ store = <<>>
    /\ pc = "start"
    /\ is_admin = FALSE
    /\ allowed_uos = None
    /\ working_uo = None
    /\ data_raw = <<>>
    /\ data = <<>>
    /\ df_f = <<>>
    /\ edited_df = <<>>
    /\ is_valid = FALSE
    /\ msg = ""
    /\ validated_df = <<>>
    /\ final_df = <<>>
    /\ io = {}
    /\ writes = 0
    /\ nEdits = 0
    /\ NoView
    /\ NoPivot
    /\ CanonicalColumns

SpecRbac == InitRbac /\ [][Resolve]_vars

(***************************************************************************)
(* The view loaders applied to arbitrary fact files.                       *)
(***************************************************************************)
\* No session is running.
IdleSession ==
    /\ rbac_secrets = Absent
    /\ rbac_yaml = Absent
    /\ store = <<>>
    /\ is_admin = FALSE
    /\ allowed_uos = None
    /\ working_uo = None
    /\ df_f = <<>>
    /\ edited_df = <<>>
    /\ is_valid = FALSE
    /\ msg = ""
    /\ validated_df = <<>>
    /\ final_df = <<>>
    /\ io = {}
    /\ writes = 0
    /\ nEdits = 0

NoSession ==
    /\ IdleSession
    /\ data_raw = <<>>
    /\ data = <<>>

\* A fact row: its unit, funding source and IPU cells, and whether its action
\* and expense item are in the dimension files.
FactShape(uo, fonte, ipu, known) ==
    [ano |-> "2026", uo_cod |-> uo, fonte_cod |-> fonte, ipu_cod |-> ipu,
     acao_cod |-> IF known THEN "100" ELSE "200",
     elemento_item_cod |-> IF known THEN "3" ELSE NULL,
     vlr_liquidado |-> IF known THEN "100" ELSE NULL,
     vlr_saldo_rpp |-> IF known THEN "7" ELSE "abc"]

FactShapes ==
    {FactShape(uo, fonte, ipu, known) :
        uo \in {"10", "1261", NULL}, fonte \in {"89", "1"}, ipu \in {"0", "5", "abc"},
        known \in BOOLEAN}

\* The rows of a file, numbered by their commitment number.
Numbered(rows) == [i \in DOMAIN rows |-> Extend(rows[i], "num_empenho", ToString(i))]

\* The fact files of up to max rows.
FactTables(max) == UNION {{Numbered(rows) : rows \in [1..n -> FactShapes]} : n \in 0..max}

\* Unit dimension files: one key per unit, or a key with two descriptions and
\* a repeated line.
DimUoFiles ==
    {<<[ano |-> "2025", cod |-> "10", desc |-> "DEOP"],
       [ano |-> "2026", cod |-> "10", desc |-> "DER"]>>,
     <<[ano |-> "2026", cod |-> "10", desc |-> "DER"],
       [ano |-> "2026", cod |-> "10", desc |-> "DER-MG"],
       [ano |-> "2026", cod |-> "10", desc |-> "DER"]>>}

Restricts == {None, Some(10), Some(UO_EXCLUIDA)}

\* The frame _load_*_raw returns: the cached one, or the file on first use.
RawFrame == IF cache = None THEN fact ELSE The(cache)

InitView ==
    /\ NoSessions
    /\ NoSession
    /\ NoPivot
    /\ CanonicalColumns
    /\ pc = "idle"
    /\ variant \in {"app", "rp"}
    /\ fact \in FactTables(MaxFacts)
    /\ dim_uo \in DimUoFiles
    /\ restrict_uo = None
    /\ wide = <<>>
    /\ cache = None
    /\ nLoads = 0

\* One call of the view loader.  _apply_global_filter rewrites the filter
\* columns of the frame it receives, which is the cached one.
LoadView ==
    /\ pc \in {"idle", "viewed"}
    /\ nLoads < MaxLoads
    /\ \E u \in Restricts :
          /\ restrict_uo' = u
          /\ wide' = load_view(variant, RawFrame, dim_uo, u)
    /\ cache' = Some(CoerceFilterCols(RawFrame, variant))
    /\ nLoads' = nLoads + 1
    /\ pc' = "viewed"
    /\ UNCHANGED <<sharedVars, colVars, pivotVars, configVars, store, accessVars, tableVars, saveVars, io,
                   writes, nEdits, variant, fact, dim_uo>>

SpecView == InitView /\ [][LoadView]_vars

(***************************************************************************)
(* _calculate_metrics applied to arbitrary ledger rows.                    *)
(***************************************************************************)
LedgerCells == {"1.5", "20", "abc", NULL}

\* A ledger row: two columns hold chosen cells; the other base columns hold
\* 7, or are absent from the file.
LedgerRow(a, va, b, vb, others) ==
    [c \in (IF others THEN COLS_BASE ELSE {a, b}) |->
        IF c = a THEN va ELSE IF c = b THEN vb ELSE "7"]

LedgerTables ==
    {<<LedgerRow(a, va, b, vb, others)>> :
        a \in COLS_BASE, va \in LedgerCells, b \in COLS_BASE, vb \in LedgerCells,
        others \in BOOLEAN}

InitMetrics ==
    /\ NoSessions
    /\ NoSession
    /\ NoPivot
    /\ CanonicalColumns
    /\ pc = "idle"
    /\ variant = "rp"
    /\ fact \in LedgerTables
    /\ dim_uo = <<>>
    /\ restrict_uo = None
    /\ wide = <<>>
    /\ cache = None
    /\ nLoads = 0

CalculateMetrics ==
    /\ pc = "idle"
    /\ wide' = calculate_metrics(fact)
    /\ pc' = "calculated"
    /\ UNCHANGED <<sharedVars, colVars, pivotVars, configVars, store, accessVars, tableVars, saveVars, io,
                   writes, nEdits, variant, fact, dim_uo, restrict_uo, cache, nLoads>>

SpecMetrics == InitMetrics /\ [][CalculateMetrics]_vars

(***************************************************************************)
(* The pivot aggregation alone, over every small wide table.               *)
(***************************************************************************)
\* Rows of the wide table: two dimensions (the unit may be null) and two
\* measures, in tenths.
WideRows ==
    {[ano |-> IF p[2] < 0 THEN "2025" ELSE "2026", uo_sigla |-> p[1],
      vlr_liquidado |-> p[2], vlr_empenhado |-> IF p[1] = "SEE" THEN 1000 ELSE 0] :
        p \in {<<"DER", 1000>>, <<"DER", 500>>, <<"DER", -500>>,
               <<"SEE", 300>>, <<"SEE", -1000>>, <<NULL, 300>>, <<NULL, -500>>}}

WideTables == UNION {[1..n -> WideRows] : n \in 0..MaxWide}

DimChoices == {<<>>, <<"uo_sigla">>, <<"ano", "uo_sigla">>}

MeasChoices == {<<>>, <<"vlr_liquidado">>, <<"vlr_liquidado", "vlr_empenhado">>}

InitPivot ==
    /\ NoSessions
    /\ NoSession
    /\ CanonicalColumns
    /\ pc = "idle"
    /\ variant \in {"app", "layout"}
    /\ fact = <<>>
    /\ dim_uo = <<>>
    /\ restrict_uo = None
    /\ wide \in WideTables
    /\ cache = None
    /\ nLoads = 0
    /\ sel_dims \in DimChoices
    /\ sel_meas \in MeasChoices
    /\ remove_zero \in (IF variant = "layout" THEN BOOLEAN ELSE {FALSE})
    /\ agg_df = None

RenderPivot ==
    /\ pc = "idle"
    /\ agg_df' = aggregate(variant, wide, sel_dims, sel_meas, remove_zero)
    /\ pc' = "rendered"
    /\ UNCHANGED <<sharedVars, colVars, viewVars, sel_dims, sel_meas, remove_zero, configVars, store, accessVars,
                   tableVars, saveVars, io, writes, nEdits>>

SpecPivot == InitPivot /\ [][RenderPivot]_vars

(***************************************************************************)
(* normalize_dataframe alone, over small tables with any header.           *)
(***************************************************************************)
Without(cols, drop) == SelectSeq(cols, LAMBDA c : c \notin drop)

\* Headers of the table read: canonical, reordered, lacking canonical
\* columns, carrying a column of no use, or empty.
RawHeaders ==
    {ALL_COLS,
     <<"b1_planejado", "valor_replanejado_total">> \o Without(ALL_COLS, NUMERIC_COLS \cup BOOL_COLS),
     Without(ALL_COLS, NUMERIC_COLS),
     <<"obs">> \o Without(ALL_COLS, BOOL_COLS \cup {"acao_desc"}),
     <<"obs">>,
     <<>>}

NumericCells == {"5", "abc", NULL, "1,5"}

PlannedCells == {"sim", " sim ", "x", "2", NULL}

RawRow(cols, num, pl) ==
    [c \in Range(cols) |->
        IF c \in NUMERIC_COLS THEN num
        ELSE IF c \in BOOL_COLS THEN pl
        ELSE IF c \in {"uo_cod", "acao_cod", "intervencao_cod"} THEN "10"
        ELSE "t"]

RawRows(cols) == {RawRow(cols, num, pl) : num \in NumericCells, pl \in PlannedCells}

RawTables(cols) == UNION {[1..n -> RawRows(cols)] : n \in 0..MaxRaw}

InitNormalize ==
    /\ NoSessions
    /\ IdleSession
    /\ NoPivot
    /\ pc = "idle"
    /\ variant \in {"app", "layout"}
    /\ fact = <<>>
    /\ dim_uo = <<>>
    /\ restrict_uo = None
    /\ wide = <<>>
    /\ cache = None
    /\ nLoads = 0
    /\ raw_columns \in RawHeaders
    /\ data_raw \in RawTables(raw_columns)
    /\ data = <<>>
    /\ columns = <<>>

\* data = normalize_dataframe(data_raw); the argument is copied first.
Normalize ==
    /\ pc = "idle"
    /\ data' = normalize(variant, data_raw)
    /\ columns' = NormalizeColumns(raw_columns)
    /\ pc' = "normalized"
    /\ UNCHANGED <<sharedVars, data_raw, raw_columns, df_f, edited_df, viewVars, pivotVars, configVars,
                   store, accessVars, saveVars, io, writes, nEdits>>

\* normalize_dataframe applied to its own result.
NormalizeAgain ==
    /\ pc = "normalized"
    /\ data' = normalize(variant, data)
    /\ columns' = NormalizeColumns(columns)
    /\ pc' = "renormalized"
    /\ UNCHANGED <<sharedVars, data_raw, raw_columns, df_f, edited_df, viewVars, pivotVars, configVars,
                   store, accessVars, saveVars, io, writes, nEdits>>

SpecNormalize == InitNormalize /\ [][Normalize \/ NormalizeAgain]_vars

(***************************************************************************)
(* Several script runs of app.py on one worksheet.  Each run reads the     *)
(* worksheet, filters, lets its user edit and saves; the steps of the runs *)
(* interleave in any order.  There is no lock and no version check.        *)
(***************************************************************************)
Sessions == 1..NumSessions

\* The secrets entries of the users: an administrator, a user of unit 1 and
\* a user of unit 2.
SharedUsers == {Entry(<<"*">>), Entry(<<"1">>), Entry(<<"2">>)}

\* Worksheets whose unit codes are whole numbers.
SharedSheets ==
    UNION {[1..n -> {SheetRow(uo, a) : uo \in {"1", "2"}, a \in {"A", "B"}}] : n \in 1..MaxRows}

\* A run after RBAC resolution (app.py 242-266).
NewSession(entry) ==
    LET res == ResolveAccess(entry, Absent)
    IN [pc |-> "ready", is_admin |-> res.is_admin, allowed_uos |-> res.allowed_uos,
        working_uo |-> CHOOSE w \in WorkingChoices(res) : TRUE,
        data_raw |-> <<>>, data |-> <<>>, df_f |-> <<>>, edited_df |-> <<>>,
        is_valid |-> FALSE, msg |-> "", validated_df |-> <<>>, final_df |-> <<>>,
        nEdits |-> 0]

InitShared ==
    /\ rbac_secrets = Absent
    /\ rbac_yaml = Absent
    /\ store \in SharedSheets
    /\ pc = "shared"
    /\ is_admin = FALSE
    /\ allowed_uos = None
    /\ working_uo = None
    /\ data_raw = <<>>
    /\ data = <<>>
    /\ df_f = <<>>
    /\ edited_df = <<>>
    /\ is_valid = FALSE
    /\ msg = ""
    /\ validated_df = <<>>
    /\ final_df = <<>>
    /\ io = {}
    /\ writes = 0
    /\ nEdits = 0
    /\ NoView
    /\ NoPivot
    /\ CanonicalColumns
    /\ sess \in [Sessions -> {NewSession(e) : e \in SharedUsers}]
    /\ saves = <<>>

SharedFrame ==
    UNCHANGED <<colVars, viewVars, pivotVars, configVars, accessVars, tableVars, saveVars,
                pc, io, writes, nEdits>>

\* app.py 307-320: conn.read, normalize_dataframe, row-level filter.
SharedRead(s) ==
    /\ sess[s].pc = "ready"
    /\ LET raw == [i \in DOMAIN store |-> WithIdx(store[i], i)]
       IN sess' = [sess EXCEPT ![s].pc = "loaded",
                               ![s].data_raw = raw,
                               ![s].data = RowLevelFilter(normalize_dataframe(raw),
                                                          sess[s].is_admin, sess[s].working_uo)]
    /\ UNCHANGED <<store, saves>>
    /\ SharedFrame

\* app.py 325-406: the selectboxes and the editor's initial content.
SharedSelect(s) ==
    /\ sess[s].pc = "loaded"
    /\ LET u == sess[s]
       IN \E uo_sel \in (IF u.is_admin THEN Options(u.data, "uo_sigla") ELSE {Todas}) :
            LET a == IF u.is_admin THEN ApplySel(u.data, "uo_sigla", uo_sel) ELSE u.data
            IN \E acao_sel \in Options(a, "acao_desc"),
                  interv_sel \in Options(a, "intervencao_desc") :
                 IF acao_sel = Todas /\ interv_sel = Todas
                 THEN sess' = [sess EXCEPT ![s].pc = "stopped"]
                 ELSE LET f == FilteredSubset(u.data, u.is_admin, u.working_uo,
                                              uo_sel, acao_sel, interv_sel)
                      IN sess' = [sess EXCEPT ![s].pc = "editing", ![s].df_f = f,
                                              ![s].edited_df = f]
    /\ UNCHANGED <<store, saves>>
    /\ SharedFrame

\* The tables one change in the editor can lead to: a re-forecast value, the
\* novo_marco selection, a deleted row, an added row.
EditsOf(df) ==
    {[df EXCEPT ![i]["valor_replanejado_total"] = "7.0"] :
        i \in {j \in DOMAIN df : df[j].valor_replanejado_total # "7.0"}}
    \cup {[df EXCEPT ![i]["novo_marco"] = IF df[i].novo_marco = "Sim" THEN "Nao" ELSE "Sim"] :
             i \in DOMAIN df}
    \cup {SelectRows(df, DOMAIN df \ {i}) : i \in DOMAIN df}
    \cup {Append(df, r) : r \in AddedRows}

SharedEdit(s) ==
    /\ sess[s].pc = "editing" /\ sess[s].nEdits < MaxEdits
    /\ \E e \in EditsOf(sess[s].edited_df) :
          sess' = [sess EXCEPT ![s].edited_df = e, ![s].nEdits = sess[s].nEdits + 1]
    /\ UNCHANGED <<store, saves>>
    /\ SharedFrame

\* Variant: the worksheet is read again when the save button is pressed.
SnapshotFresh(s) == [i \in DOMAIN store |-> WithIdx(store[i], i)]

\* The table the merge-back starts from: data_raw as the run read it.
Snapshot(s) == sess[s].data_raw

\* The validation of the save of a run, with the arguments of app.py 412-418.
SharedVerdict(s) ==
    LET u == sess[s]
    IN validate_new_rows(u.df_f, u.edited_df,
                         IF u.allowed_uos # None /\ The(u.allowed_uos) # {}
                         THEN u.allowed_uos ELSE None,
                         u.is_admin,
                         IF u.is_admin THEN None ELSE u.working_uo)

\* app.py 411-433: validation, then merge-back from the run's own data_raw
\* and conn.update of the whole worksheet.
SharedSave(s) ==
    /\ sess[s].pc = "editing"
    /\ LET v == SharedVerdict(s)
       IN IF SaveProceeds(v)
          THEN /\ store' = MergeBack(Snapshot(s), sess[s].df_f, v.df)
               /\ saves' = Append(saves, s)
               /\ sess' = [sess EXCEPT ![s].pc = "saved", ![s].is_valid = TRUE,
                                       ![s].msg = v.msg, ![s].validated_df = v.df,
                                       ![s].final_df = store']
          ELSE /\ sess' = [sess EXCEPT ![s].pc = "rejected", ![s].is_valid = FALSE,
                                       ![s].msg = v.msg, ![s].validated_df = v.df]
               /\ UNCHANGED <<store, saves>>
    /\ SharedFrame

NextShared ==
    \E s \in Sessions : SharedRead(s) \/ SharedSelect(s) \/ SharedEdit(s) \/ SharedSave(s)

SpecShared == InitShared /\ [][NextShared]_vars

(***************************************************************************)
(* Properties.                                                             *)
(***************************************************************************)
\* The validation result of the table the editor holds when save is clicked.
SaveVerdict == validate_new_rows(df_f, edited_df, CallAllowed, is_admin, CallWorking)

\* C1: in every save, conn.update is issued only when validate_new_rows
\* returned ok=true for the edited table of that save; when it returned
\* ok=false no write is issued and the worksheet stays as it was.
C1_WriteOnlyAfterValidation ==
    [][/\ (writes' # writes \/ store' # store) => (pc = "editing" /\ SaveVerdict.ok)
       /\ (pc = "editing" /\ pc' = "rejected") =>
              (~SaveVerdict.ok /\ writes' = writes /\ store' = store /\ io' = io)]_vars

C1_Witness ==
    /\ pc = "rejected"
    /\ ~is_valid
    /\ edited_df # df_f
    /\ writes = 0

\* Rows of the read table outside the filtered subset handed to the editor.
OutsideRows == SelectRows(data_raw, {i \in DOMAIN data_raw : data_raw[i].idx \notin IdxOf(df_f)})

CanonSeq(df) == [i \in DOMAIN df |-> Canon(df[i])]

\* C2: every row of the table read from the store that is not in the
\* filtered subset handed to the editor appears in the table to persist with
\* every canonical column unchanged, whatever the filter and the edit.
C2_OutsideRowsPreserved ==
    pc \in {"saved", "writefail"} =>
        \A i \in DOMAIN OutsideRows :
            Count(final_df, Canon(OutsideRows[i])) >= Count(CanonSeq(OutsideRows), Canon(OutsideRows[i]))

C2_Witness ==
    /\ pc = "saved"
    /\ OutsideRows # <<>>
    /\ edited_df # df_f
    /\ Canon(OutsideRows[1]) # NormalizeRow(Canon(OutsideRows[1]))

\* C3: the table to persist is exactly the rows outside the filtered subset
\* plus the rows of the edited subset: |full| - |filtered| + |edited| rows,
\* each edited row once, no filtered row kept in its old form.
C3_MergeIsRemainderPlusEdited ==
    pc \in {"saved", "writefail"} =>
        /\ Len(final_df) = Len(data_raw) - Len(df_f) + Len(validated_df)
        /\ final_df = CanonSeq(OutsideRows) \o CanonSeq(validated_df)

C3_Witness ==
    /\ pc = "saved"
    /\ OutsideRows # <<>>
    /\ Len(validated_df) < Len(df_f)
    /\ store = final_df

\* The rows of the edited table whose composite key is not a key of before.
NewRowsOf(before, after) == {i \in DOMAIN after : KeyOf(after[i]) \notin KeySet(before)}

\* C4: a new row with a null or empty required field makes validate_new_rows
\* fail with the required-fields message, whatever the other rows, and no
\* novo_marco flag has been changed.
C4_RequiredFieldGate ==
    (pc = "validated" /\
        \E i \in NewRowsOf(df_f, edited_df) :
            \E c \in REQUIRED_ON_NEW : edited_df[i][c] = NULL \/ edited_df[i][c] = "")
    => (~is_valid /\ msg = MsgRequired /\ validated_df = edited_df)

C4_Witness ==
    /\ pc = "validated"
    /\ ~is_valid
    /\ \E i, j \in NewRowsOf(df_f, edited_df) :
          /\ edited_df[i].valor_previsto_total = ""
          /\ \A c \in REQUIRED_ON_NEW : edited_df[j][c] \notin {NULL, ""}
          /\ edited_df[j].novo_marco = "Nao"

\* The unit code of a cell is the unit w: a number equal to w.
IsUnit(c, w) == ~IsNaN(c) /\ NumTable[c] = <<w, 0>>

\* C5: for a non-admin user with a pinned working unit the validator fails
\* whenever a row of after has a unit code different from the working unit,
\* also when that unit is one of allowed_uos.
C5_PinnedUnit ==
    (pc = "validated" /\ ~is_admin /\ working_uo # None /\
        \E i \in DOMAIN edited_df : ~IsUnit(edited_df[i].uo_cod, The(working_uo)))
    => ~is_valid

\* C6: for a non-admin user the validator succeeds only if no row of after
\* has a null unit code and every unit code of after is one of allowed_uos;
\* for an admin user no unit check is applied.
C6_UnitsAllowed ==
    pc = "validated" =>
        IF is_admin
        THEN is_valid <=> ~(\E i \in NewRowsOf(df_f, edited_df) : RequiredBlank(edited_df[i]))
        ELSE is_valid =>
                /\ allowed_uos # None
                /\ \A i \in DOMAIN edited_df :
                      /\ edited_df[i].uo_cod # NULL
                      /\ \E u \in The(allowed_uos) : IsUnit(edited_df[i].uo_cod, u)

\* C7: when the validator succeeds, a row has its novo_marco set to "Sim" by
\* the validator exactly when its string-coerced key is in
\* keys(after) - keys(before); every other row is as the editor supplied it.
C7_NewRowsStamped ==
    (pc = "validated" /\ is_valid) =>
        /\ Len(validated_df) = Len(edited_df)
        /\ \A i \in DOMAIN edited_df :
              IF KeyOf(edited_df[i]) \in KeySet(edited_df) \ KeySet(df_f)
              THEN validated_df[i] = [edited_df[i] EXCEPT !["novo_marco"] = "Sim"]
              ELSE validated_df[i] = edited_df[i]

C7_Witness ==
    /\ pc = "validated"
    /\ is_valid
    /\ \E i, j \in DOMAIN edited_df :
          /\ KeyOf(edited_df[i]) \notin KeySet(df_f)
          /\ edited_df[i].novo_marco = "Nao"
          /\ validated_df[i].novo_marco = "Sim"
          /\ KeyOf(edited_df[j]) \in KeySet(df_f)
          /\ validated_df[j].novo_marco = "Nao"

\* C8: for a non-admin user every row shown after the row-level filter has a
\* unit code numerically equal to the working unit, a row with a missing or
\* unparsable unit code is never shown; for an admin user the filter returns
\* the normalised table unchanged.
C8_RowLevelFilter ==
    pc \in {"loaded", "editing"} =>
        IF is_admin
        THEN data = normalize_dataframe(data_raw)
        ELSE \A i \in DOMAIN data : IsUnit(data[i].uo_cod, The(working_uo))

\* C9: a session whose user is not admin and has no permitted unit stops at
\* the authorization error: it performs no read, no write and no view load.
C9_NoUnitsNoAccess ==
    (EffectiveList(rbac_secrets, rbac_yaml) = <<>>) =>
        /\ io = {}
        /\ writes = 0
        /\ pc \in {"start", "blocked"}

C9_Witness ==
    /\ pc = "blocked"
    /\ ~is_admin
    /\ allowed_uos = Some({})
    /\ io = {}

\* C10: the user is resolved as admin exactly when the effective mapping
\* value, from whichever source, is the single-element list ["*"].
C10_AdminIffWildcard ==
    pc # "start" =>
        ((pc = "ready" /\ is_admin /\ allowed_uos = None)
            <=> EffectiveList(rbac_secrets, rbac_yaml) = <<"*">>)

\* The units a list of unit tokens names.
UnitsOfList(l) == {IntOf(l[i]) : i \in DOMAIN l}

\* The source the precedence rule selects for the user of the session.
SelectedSource ==
    IF rbac_secrets.has /\ rbac_secrets.lst # <<>> THEN rbac_secrets.lst
    ELSE IF rbac_yaml.has THEN rbac_yaml.lst ELSE <<>>

\* C11: the resolved scope is the one of the secrets entry whenever that entry
\* is present and non-empty; the YAML entry is used only when the secrets
\* entry is absent or empty, and never overrides or widens a non-empty one.
C11_SecretsPrecedence ==
    pc # "start" =>
        /\ is_admin => (\E i \in DOMAIN SelectedSource : SelectedSource[i] = "*")
        /\ (pc \in {"ready", "blocked"} /\ ~is_admin) =>
               (allowed_uos # None /\ The(allowed_uos) = UnitsOfList(SelectedSource))
        /\ (rbac_secrets.has /\ rbac_secrets.lst # <<>> /\ ~ListRaises(rbac_secrets.lst)) =>
               (pc = "ready" /\ ~is_admin)

C11_Witness ==
    /\ pc = "ready"
    /\ rbac_secrets = Entry(<<"1">>)
    /\ rbac_yaml = Entry(<<"1", "2">>)
    /\ ~is_admin
    /\ allowed_uos = Some({1})

\* The global predicate over the cells of the fact file: a missing or
\* unparsable code equals no number.
InScope(r) ==
    /\ NumEq(r.fonte_cod, 89) \/ NumEq(r.ipu_cod, 0)
    /\ ~NumEq(r.uo_cod, 1261)

\* The commitment numbers of the rows of a table.
Empenhos(df) == {ToInt64(df[i].num_empenho) : i \in DOMAIN df}

\* C12: without unit restriction the wide view holds exactly the fact rows
\* whose file cells satisfy (fonte_cod = 89 or ipu_cod = 0) and uo_cod # 1261,
\* a missing or unparsable code satisfying neither equality.
C12_GlobalPredicateExact ==
    (pc = "viewed" /\ restrict_uo = None) =>
        Empenhos(wide) = Empenhos(SelectRows(fact, {i \in DOMAIN fact : InScope(fact[i])}))

\* What the loader returns without restriction for the frame it now holds.
UnrestrictedView == load_view(variant, RawFrame, dim_uo, None)

HasKey(dimfile, ano, cod) ==
    \E j \in DOMAIN dimfile : KeyEq(ano, dimfile[j].ano) /\ KeyEq(cod, dimfile[j].cod)

\* The fact rows that pass the global filter and the unit restriction.
PassingRows == RestrictRows(apply_global_filter(fact, variant), restrict_uo)

\* C14: a fact row that passes the filters and has no match in a dimension
\* table is kept in the wide view with a null description of that dimension
\* (uo_sigla, acao_desc, elemento_item_desc).
C14_UnmatchedKeptWithNull ==
    pc = "viewed" =>
        /\ Empenhos(wide) = Empenhos(PassingRows)
        /\ \A i \in DOMAIN wide :
              /\ ~HasKey(dim_uo, wide[i].ano, wide[i].uo_cod) => IsNull(wide[i].uo_sigla)
              /\ ~HasKey(DimAcaoFile, wide[i].ano, wide[i].acao_cod) => IsNull(wide[i].acao_desc)
              /\ ~HasKey(DimEliFile, wide[i].ano, wide[i].elemento_item_cod) =>
                     IsNull(wide[i].elemento_item_desc)

\* A raw ledger input in tenths, a missing or unparsable one taken as 0.
Raw0(r, c) ==
    IF c \notin DOMAIN r \/ r[c] \notin DOMAIN NumTable THEN 0
    ELSE 10 * NumTable[r[c]][1] + NumTable[r[c]][2]

\* C15: every row of the arrears view has its derived columns equal to the
\* stated formulas over the raw inputs, missing or unparsable inputs being 0.
C15_ArrearsFormulas ==
    pc = "calculated" =>
        /\ Len(wide) = Len(fact)
        /\ \A i \in DOMAIN fact :
              LET r == fact[i]
                  w == wide[i]
              IN /\ w.calc_inscrito_rpp = Raw0(r, "vlr_inscrito_rpp")
                 /\ w.calc_cancelado_rpp =
                        Raw0(r, "vlr_cancelado_rpp") + Raw0(r, "vlr_desconto_rpp")
                        - Raw0(r, "vlr_restabelecido_rpp")
                 /\ w.calc_pago_rpp =
                        Raw0(r, "vlr_pago_rpp") - Raw0(r, "vlr_anulacao_pagamento_rpp")
                        + Raw0(r, "vlr_retencao_rpp") - Raw0(r, "vlr_anulacao_retencao_rpp")
                 /\ w.calc_saldo_rpp = Raw0(r, "vlr_saldo_rpp")
                 /\ w.calc_inscrito_rpnp = Raw0(r, "vlr_inscrito_rpnp")
                 /\ w.calc_cancelado_rpnp =
                        Raw0(r, "vlr_cancelado_rpnp") - Raw0(r, "vlr_restabelecido_rpnp")
                 /\ w.calc_liquidado_rpnp = Raw0(r, "vlr_despesa_liquidada_rpnp")
                 /\ w.calc_saldo_rpnp = Raw0(r, "vlr_saldo_rpnp")
                 /\ w.calc_pago_rpnp =
                        Raw0(r, "vlr_saldo_rpp") + Raw0(r, "vlr_despesa_liquidada_rpnp")
                        - Raw0(r, "vlr_despesa_liquidada_pagar")

C15_Witness ==
    /\ pc = "calculated"
    /\ Len(fact) = 1
    /\ DOMAIN fact[1] = COLS_BASE
    /\ fact[1].vlr_desconto_rpp = "20"
    /\ fact[1].vlr_restabelecido_rpp = "1.5"
    /\ wide[1].calc_cancelado_rpp = 255
    /\ wide[1].calc_pago_rpp = 0

\* The table the aggregator produced.
Agg == The(agg_df)

\* The output rows that carry a given combination of dimension values.
RowsOf(combo) == {i \in DOMAIN Agg : Combo(Agg[i], sel_dims) = combo}

\* Every output row carries the group's sum of every selected measure.
GroupSumsRight ==
    \A i \in DOMAIN Agg : \A k \in DOMAIN sel_meas :
        Agg[i][sel_meas[k]] =
            SumOver(wide, Group(wide, sel_dims, Combo(Agg[i], sel_dims)), sel_meas[k])

\* The groups whose selected measures add up to zero.
ZeroGroups ==
    {c \in Combos(wide, sel_dims) :
        RowTotal([m \in Range(sel_meas) |-> SumOver(wide, Group(wide, sel_dims, c), m)],
                 sel_meas) = 0}

Hiding == variant = "layout" /\ remove_zero

C16_WitnessHidden ==
    /\ pc = "rendered"
    /\ Hiding
    /\ sel_dims = <<"uo_sigla">>
    /\ sel_meas = <<"vlr_liquidado">>
    /\ ZeroGroups # {}
    /\ Len(Agg) = 1

\* The grand totals of the selected measures over the whole wide table.
GrandTotals == [m \in Range(sel_meas) |-> SumOver(wide, DOMAIN wide, m)]

C18_DistinctCombinations ==
    (pc = "rendered") =>
        /\ (sel_dims # <<>> /\ sel_meas = <<>>) =>
              /\ agg_df # None
              /\ \A i \in DOMAIN Agg : DOMAIN Agg[i] = Range(sel_dims)
              /\ \A c \in Combos(wide, sel_dims) : Cardinality(RowsOf(c)) = 1
              /\ Len(Agg) = Cardinality(Combos(wide, sel_dims))
        /\ (agg_df = None) <=> (sel_dims = <<>> /\ sel_meas = <<>>)

\* The page of app.py showed each combination once.
C18_ShownByApp ==
    /\ pc = "rendered"
    /\ variant = "app"
    /\ sel_dims = <<"uo_sigla">>
    /\ sel_meas = <<>>
    /\ Len(wide) = 3
    /\ agg_df = Some(<<[uo_sigla |-> "DER"], [uo_sigla |-> NULL]>>)

\* C19: normalize_dataframe applied to its own result gives the same columns
\* in the same order and the same cell values.
C19_NormalizeIdempotent ==
    [][(pc = "normalized" /\ pc' = "renormalized") =>
           (data' = data /\ columns' = columns)]_vars

C19_Witness ==
    /\ pc = "renormalized"
    /\ Len(data_raw) = 2
    /\ raw_columns # ALL_COLS
    /\ \E i \in DOMAIN data_raw :
           /\ "valor_replanejado_total" \in DOMAIN data_raw[i]
           /\ data_raw[i].valor_replanejado_total = "5"
           /\ data[i].valor_replanejado_total = "5.0"
    /\ \E i \in DOMAIN data_raw :
           /\ "b1_planejado" \in DOMAIN data_raw[i]
           /\ data_raw[i].b1_planejado = "sim"
           /\ data[i].b1_planejado \in {"True", "X"}

\* The cell of a column in an input row; a column the input lacks is empty.
RawCell(r, c) == IF c \in DOMAIN r THEN r[c] ELSE NULL

\* The number a numeric cell is read as, if any.
Parsed(c) ==
    LET t == IF variant = "app" THEN c ELSE CommaToDot(c)
    IN IF t \in DOMAIN NumTable THEN Some(NumTable[t]) ELSE None

\* What the result holds for a cell of a numeric or a text column.
Expected(c, cell) ==
    IF c \in NUMERIC_COLS
    THEN IF Parsed(cell) = None THEN "0.0" ELSE FloatText(The(Parsed(cell)))
    ELSE cell

\* C20: for any input table (canonical columns missing, columns of no use
\* present, numeric cells that do not parse) normalize_dataframe returns, and
\* the result has exactly the columns ALL_COLS in that order and the rows of
\* the input; a column the input lacks is materialised as empty and then cast
\* like any empty cell (0.0 in a numeric column, false in a boolean one), a
\* numeric cell that does not parse is 0.0, text cells are kept, and the
\* input table is left as it was.
C20_NormalizeTotal ==
    /\ [](pc = "idle" => ENABLED Normalize)
    /\ [][(pc = "idle" /\ pc' = "normalized") =>
             /\ columns' = ALL_COLS
             /\ Len(data') = Len(data_raw)
             /\ \A i \in DOMAIN data' : DOMAIN data'[i] = ColSet
             /\ \A i \in DOMAIN data' : \A c \in ColSet \ BOOL_COLS :
                    data'[i][c] = Expected(c, RawCell(data_raw[i], c))
             /\ \A i \in DOMAIN data' : \A c \in BOOL_COLS :
                    /\ data'[i][c] \in (IF variant = "app" THEN {"True", "False"} ELSE {"X", ""})
                    /\ RawCell(data_raw[i], c) = NULL =>
                           data'[i][c] = (IF variant = "app" THEN "False" ELSE "")
             /\ data_raw' = data_raw
             /\ raw_columns' = raw_columns]_vars

C20_Witness ==
    /\ pc = "normalized"
    /\ raw_columns = <<"obs">> \o Without(ALL_COLS, BOOL_COLS \cup {"acao_desc"})
    /\ columns = ALL_COLS
    /\ Len(data_raw) = 2
    /\ data_raw[1].valor_replanejado_total = "abc"
    /\ data[1].valor_replanejado_total = "0.0"
    /\ data[1].acao_desc = NULL
    /\ data[2].valor_replanejado_total = "5.0"
    /\ "obs" \notin DOMAIN data[1]

\* The planned cell of the result stands for true.
IsTrue(c) == c \in {"True", "X"}

\* C21: normalize_dataframe maps a planned cell to true exactly when its
\* text, letter case aside, is in the one token set that holds "TRUE", "1",
\* "SIM", "X", "V" and "OK", and every other cell (an empty one too) to
\* false; every place that coerces planned flags uses that same set.
C21_OneTokenSet ==
    (pc = "normalized") =>
        /\ \A i \in DOMAIN data : \A c \in BOOL_COLS :
               IsTrue(data[i][c]) <=> Upper(Str(RawCell(data_raw[i], c))) \in TRUE_TOKENS
        /\ {"TRUE", "1", "SIM", "X", "V", "OK"} \subseteq BoolTokens
        /\ BoolTokens = TRUE_TOKENS
        /\ SAVE_TOKENS = TRUE_TOKENS

\* A save was written in this step.
Saved == pc = "editing" /\ pc' = "saved"

\* The persisted row of the k-th row of the validated table: the merged
\* table ends with the validated rows.
PersistedOf(k) == store'[Len(store') - Len(validated_df') + k]

\* The stored row an edited row was read from (index label 0: a row added
\* in the editor).
StoredOf(k) == store[validated_df'[k].idx]

\* The rows of the validated table that existed in the store.
Existing == {k \in DOMAIN validated_df' : validated_df'[k].idx # 0}

\* What a planned cell means under the token set of the specification.
PlannedMeaning(c) == Upper(Str(c)) \in TRUE_TOKENS

\* C22: a save changes neither the persisted planned value of a row that
\* already existed in the store nor its true/false meaning; of such a row
\* only the numeric re-forecast and actual columns can differ after it.
C22_PlannedImmutable ==
    [][Saved =>
          \A k \in Existing :
              /\ \A c \in BOOL_COLS :
                     /\ PlannedMeaning(PersistedOf(k)[c]) = PlannedMeaning(StoredOf(k)[c])
                     /\ PersistedOf(k)[c] = StoredOf(k)[c]
              /\ \A c \in ColSet \ NUMERIC_COLS : PersistedOf(k)[c] = StoredOf(k)[c]]_vars

\* Two runs read the same stored table, edited overlapping subsets and both
\* saved; first and second are the runs in the order of their writes.
BothSaved(first, second) ==
    /\ saves = <<first, second>>
    /\ first # second
    /\ sess[first].data_raw = sess[second].data_raw
    /\ IdxOf(sess[first].df_f) \cap IdxOf(sess[second].df_f) # {}

\* C23: when two users read the same stored table, edit overlapping filtered
\* subsets and both save, the worksheet after the second save is the second
\* writer's merge of the table as that writer read it: every overlapping row
\* the second writer kept is persisted in the second writer's version, nothing
\* of the first writer's save remains, and neither save reported an error.
C23_LastWriterWins ==
    \A first, second \in DOMAIN sess :
        BothSaved(first, second) =>
            LET v == sess[second].validated_df
                n == Len(store) - Len(v)
            IN /\ store = MergeBack(sess[second].data_raw, sess[second].df_f, v)
               /\ \A k \in DOMAIN v :
                      v[k].idx \in IdxOf(sess[first].df_f) => store[n + k] = Canon(v[k])
               /\ sess[first].is_valid /\ sess[first].msg = ""
               /\ sess[second].is_valid /\ sess[second].msg = ""

C23_Witness ==
    \E first, second \in DOMAIN sess :
        /\ BothSaved(first, second)
        /\ sess[first].edited_df # sess[first].df_f
        /\ sess[second].edited_df # sess[second].df_f
        /\ sess[first].final_df # store
        /\ \E i \in DOMAIN sess[first].final_df :
               /\ sess[first].final_df[i].valor_replanejado_total = "7.0"
               /\ \A j \in DOMAIN store : store[j].valor_replanejado_total # "7.0"

\* The novo_marco cell the editor showed for the k-th validated row before
\* the user touched it.
ShownNovoMarco(k) ==
    LET j == CHOOSE x \in DOMAIN df_f : df_f[x].idx = validated_df'[k].idx
    IN df_f[j].novo_marco

\* C24: the persisted novo_marco of a row that already existed is never the
\* value its user selected in the cell: a save writes for it what the editor
\* showed before any selection (only the validator sets the flag, and only on
\* new rows).
C24_NovoMarcoOnlyByValidator ==
    [][Saved => \A k \in Existing : PersistedOf(k).novo_marco = ShownNovoMarco(k)]_vars

\* The selections of the three selectboxes that give run s its filtered subset.
SelectionsOf(s) ==
    LET u == sess[s]
    IN {sel \in (IF u.is_admin THEN Options(u.data, "uo_sigla") ELSE {Todas})
                 \X Options(u.data, "acao_desc") \X Options(u.data, "intervencao_desc") :
           /\ LET a == IF u.is_admin THEN ApplySel(u.data, "uo_sigla", sel[1]) ELSE u.data
              IN sel[2] \in Options(a, "acao_desc") /\ sel[3] \in Options(a, "intervencao_desc")
           /\ ~(sel[2] = Todas /\ sel[3] = Todas)
           /\ u.df_f = FilteredSubset(u.data, u.is_admin, u.working_uo,
                                      sel[1], sel[2], sel[3])}

\* The same user saved twice without a change in the editor: run `again` read
\* the worksheet after the save of run `once` and applied the same selections.
SavedTwice(once, again) ==
    /\ saves = <<once, again>>
    /\ once # again
    /\ sess[once].is_admin = sess[again].is_admin
    /\ sess[once].working_uo = sess[again].working_uo
    /\ sess[once].allowed_uos = sess[again].allowed_uos
    /\ SelectionsOf(once) \cap SelectionsOf(again) # {}
    /\ sess[once].edited_df = sess[once].df_f
    /\ sess[again].edited_df = sess[again].df_f
    /\ \A i \in DOMAIN sess[again].data_raw :
           i \in DOMAIN sess[once].final_df
           /\ Canon(sess[again].data_raw[i]) = sess[once].final_df[i]
    /\ Len(sess[again].data_raw) = Len(sess[once].final_df)

\* C25: the merge-back is idempotent: after a save of a filtered subset with
\* no edits, a re-read and a second save with the same filter and no edits,
\* the persisted table has the rows, the values and the row order it had
\* after the first save.
C25_MergeBackIdempotent ==
    \A once, again \in DOMAIN sess :
        SavedTwice(once, again) => store = sess[once].final_df

C25_Witness ==
    \E once, again \in DOMAIN sess :
        /\ SavedTwice(once, again)
        /\ store = sess[once].final_df
        /\ Len(sess[once].df_f) < Len(store)
        /\ sess[once].final_df # [i \in DOMAIN sess[once].data_raw |->
                                      Canon(sess[once].data_raw[i])]

\* C26: loading a view never modifies the cached fact table: after any
\* sequence of view-loader calls the table the memoised raw loader holds is
\* equal, cell for cell, to the table as first loaded, and the view returned
\* is the one a first call with the same argument returns.
C26_CacheUnmodified ==
    (pc = "viewed") =>
        /\ The(cache) = fact
        /\ wide = load_view(variant, fact, dim_uo, restrict_uo)

\* Run s wrote the worksheet in this step.
SavedBy(s) == saves' = Append(saves, s)

\* The rows of a stored table that belong to other units than unit w.
OtherUnits(table, w) ==
    SelectRows(table, {i \in DOMAIN table : UoInt(table[i].uo_cod) # w})

\* C27: in any interleaving of two users, a successful save by a non-admin
\* user leaves every persisted row of another unit than that user's working
\* unit exactly as it was in the store immediately before the save.
C27_OtherUnitsUntouched ==
    [][\A s \in DOMAIN sess :
          (SavedBy(s) /\ ~sess[s].is_admin) =>
              OtherUnits(store', The(sess[s].working_uo))
                  = OtherUnits(store, The(sess[s].working_uo))]_vars

\* No two rows of a table share the composite key.
UniqueKeys(table) ==
    \A i, j \in DOMAIN table : KeyOf(table[i]) = KeyOf(table[j]) => i = j

\* C28: if no two rows of the persisted table share the composite key
\* (uo_cod, acao_cod, intervencao_cod, marcos_principais) before a save, no
\* two rows share it after a successful save, whatever rows the user added.
C28_KeysStayUnique ==
    [][(Saved /\ UniqueKeys(store)) => UniqueKeys(store')]_vars

\* The fact rows that pass the global predicate and the unit restriction of
\* the last call.
KeptFacts == RestrictRows(apply_global_filter(fact, variant), restrict_uo)

\* C29: joining with the dimension tables never multiplies fact rows: for
\* any dimension file, one with a (ano, code) key under two descriptions
\* included, the wide view has exactly one row per fact row that passed the
\* global predicate and the unit restriction, in the same order.
C29_JoinsKeepRows ==
    (pc = "viewed") =>
        /\ Len(wide) = Len(KeptFacts)
        /\ \A i \in DOMAIN wide : wide[i].num_empenho = KeptFacts[i].num_empenho

\* C30: aggregation conserves totals: with at least one measure selected,
\* for every selection of dimensions and either setting of the hide-zero
\* option, each selected measure summed over the rows of the output equals
\* that measure summed over the whole wide table.
C30_TotalsConserved ==
    (pc = "rendered" /\ sel_meas # <<>>) =>
        /\ agg_df # None
        /\ \A m \in Range(sel_meas) :
               SumOver(Agg, DOMAIN Agg, m) = SumOver(wide, DOMAIN wide, m)

====
